---- MODULE Spec2Model ----
(***************************************************************************)
(* The cueball Resolver (hekike/cueball-resolver) as a state machine.      *)
(*                                                                         *)
(* Two revisions of the Resolver are in the sources and both are modelled, *)
(* selected by the variable `version`, which never changes:                *)
(*   "resolver.js"  src/src/resolver.js: starting -> running on the        *)
(*                  'updated' event that start() emits from a setImmediate *)
(*                  callback; state_running drains the queue on entry.     *)
(*   "part_000"     src/unnamed/part_000: starting -> running from the     *)
(*                  state handle's immediate; state_running calls          *)
(*                  _processQueue, which drains from a setImmediate.       *)
(*                                                                         *)
(* One step of the model is one run-to-completion turn of the single       *)
(* JavaScript thread: either a call made by the consumer, or the callback  *)
(* at the head of the setImmediate queue (FIFO).  Code that runs in one    *)
(* turn is composed from operators over a record `m` of the mutable fields.*)
(***************************************************************************)
EXTENDS Integers, Sequences, FiniteSets, TLC

VARIABLES
    version,       \* which revision of resolver.js this behaviour runs
    options,       \* the options the Resolver was constructed with
    defaultPort,   \* this.defaultPort
    state,         \* the FSM state (FSM.getState())
    _backends,     \* this._backends: Map in insertion order, as a sequence of Backends
    _queue,        \* this._queue: sequence of {key, operation, backend}
    _lastError,    \* this._lastError ("" is undefined)
    immediates,    \* the event loop's setImmediate queue
    fsm_toEmit,    \* states whose 'stateChanged' notification is not delivered yet
    emitted,       \* history: the events the Resolver's code has emitted so far
    notified,      \* history: 'stateChanged' notifications delivered so far
    ops,           \* history: the consumer's calls so far
    step,          \* what the last step was
    looping,       \* the thread is inside a while loop that does not end
    item,          \* <<the item that loop has shifted off the queue>>, or <<>>
    crashed        \* an exception left a setImmediate callback uncaught

vars == <<version, options, defaultPort, state, _backends, _queue, _lastError, immediates,
          fsm_toEmit, emitted, notified, ops, step, looping, item, crashed>>

-----------------------------------------------------------------------------
(* Bounds of the model *)

\* the consumer makes at most MaxCalls calls in a behaviour
MaxCalls == 3

\* ... and at most MaxCycleCalls when all of them are calls of start, stop
\* and resetBackends (a stop followed by a new start takes four)
MaxCycleCalls == 4

-----------------------------------------------------------------------------
(* Values *)

Versions == {"resolver.js", "part_000"}

States == {"stopped", "starting", "running", "stopping", "failed"}

\* a port that is absent from a descriptor
undefined == -1

\* a port that is present but is not a number
foobar == -2

isNumber(port) == port >= 0

\* net.isIP(address) # 0
isIP(address) == address \in {"10.0.0.3", "10.0.0.4", "::1", "0:0:0:0:0:0:0:1"}

\* ipaddr.parse(address).toNormalizedString()
toNormalizedString(address) ==
    IF address = "::1" THEN "0:0:0:0:0:0:0:1" ELSE address

\* Backend.getKey with the name left out of the digest
getKey_unnamed(service) == <<service.port, toNormalizedString(service.address)>>

\* Backend.getKey: the digest of name || "||" || port || "||" || addr, kept as
\* the triple that is hashed (the digest is taken to be injective).  The name
\* `${address}:${port}` is kept as the pair it is built from.
getKey(service) ==
    <<service.name, service.port, toNormalizedString(service.address)>>

\* new Backend({address, port}) for a descriptor that passes the assertions
Backend(address, port) ==
    LET service == [name |-> <<address, port>>, address |-> address, port |-> port]
    IN  [key |-> getKey(service), service |-> service]

\* the assertions of the Backend constructor
BackendOk(address, port) == isIP(address) /\ isNumber(port)

D1 == [address |-> "10.0.0.3", port |-> 2022]
D2 == [address |-> "10.0.0.4", port |-> undefined]
D3 == [address |-> "invalid", port |-> undefined]
D4 == [address |-> "10.0.0.3", port |-> foobar]

\* descriptors the consumer passes to addBackend / removeBackend
Descrs == {D1, D2, D3, D4}

\* descriptors for the identity of Backends: IPv4 addresses and two spellings
\* of one IPv6 address, each without a port and with two ports
BackendDescrs ==
    [address : {"10.0.0.3", "10.0.0.4", "::1", "0:0:0:0:0:0:0:1"},
     port : {undefined, 80, 2022}]

\* lists of well-formed descriptors the consumer passes to resetBackends
ResetLists == {<<>>, <<D2, D1>>}

\* lists with a malformed descriptor the consumer passes to resetBackends
MalformedLists == {<<D1, D3>>}

\* options the consumer constructs the Resolver with
Options == { [defaultPort |-> 80,   backends |-> <<>>],
             [defaultPort |-> 80,   backends |-> <<D2>>],
             [defaultPort |-> 2021, backends |-> <<D1, D2>>] }

Errors == {"My Error 1", "My Error 2"}

Last(s) == s[Len(s)]

\* F(x), with x evaluated once: TLC re-evaluates an operator's argument at
\* each use when it evaluates ENABLED, and binds the element of a set once
Once(x, F(_)) == CHOOSE r \in {F(v) : v \in {x}} : TRUE

Keys(backends) == {backends[i].key : i \in 1..Len(backends)}

\* Map.prototype.set that appends without looking for the key
MapSet_append(backends, b) == Append(backends, b)

\* Map.prototype.set that moves a present key to the end
MapSet_moveToEnd(backends, b) ==
    Append(SelectSeq(backends, LAMBDA x : x.key # b.key), b)

\* Map.prototype.set: a present key keeps its place, a new one goes last
MapSet(backends, b) ==
    IF b.key \in Keys(backends)
    THEN [i \in 1..Len(backends) |-> IF backends[i].key = b.key THEN b ELSE backends[i]]
    ELSE Append(backends, b)

\* Map.prototype.delete with the test on the key inverted
MapDelete_others(backends, key) == SelectSeq(backends, LAMBDA x : x.key = key)

\* Map.prototype.delete
MapDelete(backends, key) == SelectSeq(backends, LAMBDA x : x.key # key)

-----------------------------------------------------------------------------
(* The code of one turn, over the record m of the fields it reads and writes *)

Machine ==
    [state |-> state, backends |-> _backends, queue |-> _queue,
     immediates |-> immediates, toEmit |-> fsm_toEmit, emitted |-> emitted,
     threw |-> FALSE, ret |-> <<>>]

\* a callback in the setImmediate queue; list is the argument it closes over
Task(kind, list) == [kind |-> kind, list |-> list]

setImmediate(m, task) == [m EXCEPT !.immediates = Append(@, task)]

isInState(m, s) == m.state = s

\* FSMStateHandle.disconnect: an immediate set through the state handle is
\* cleared when the state is left
disconnect(m) ==
    [m EXCEPT !.immediates =
        SelectSeq(@, LAMBDA t : t.kind \notin {"starting.immediate", "stopping.immediate"})]

\* Resolver._createBackend: the port defaults to this.defaultPort
_createBackend(d) ==
    Backend(d.address, IF d.port = undefined THEN defaultPort ELSE d.port)

\* _createBackendOk without the assertion on the port
_createBackendOk_addressOnly(d) == isIP(d.address)

\* whether Resolver._createBackend returns (new Backend does not throw)
_createBackendOk(d) ==
    BackendOk(d.address, IF d.port = undefined THEN defaultPort ELSE d.port)

\* announce that does not emit 'removed'
announce_unlessRemoved(m, event, key) ==
    IF event = "removed" THEN m
    ELSE [m EXCEPT !.emitted = Append(@, [event |-> event, key |-> key])]

\* this.emit of 'added', 'removed' or 'updated' from addBackend and
\* removeBackend: they emit in running only, where the state handle listens
\* to stopAsserted alone, so the event reaches the consumer and nothing else
announce(m, event, key) ==
    [m EXCEPT !.emitted = Append(@, [event |-> event, key |-> key])]

\* addBackend that applies the operation in every state
addBackend_unqueued(m, d) ==
    IF ~_createBackendOk(d) THEN [m EXCEPT !.threw = TRUE]
    ELSE LET backend == _createBackend(d)
             m1 == [m EXCEPT !.backends = MapSet(@, backend)]
             m2 == announce(m1, "added", backend.key)
         IN  [m2 EXCEPT !.ret = <<backend>>]

\* Resolver.addBackend
addBackend(m, d) ==
    IF ~_createBackendOk(d) THEN [m EXCEPT !.threw = TRUE]
    ELSE LET backend == _createBackend(d) IN
         IF isInState(m, "running")
         THEN LET m1 == [m EXCEPT !.backends = MapSet(@, backend)]
                  m2 == announce(m1, "added", backend.key)
                  m3 == IF version = "resolver.js" THEN announce(m2, "updated", <<>>) ELSE m2
              IN  [m3 EXCEPT !.ret = <<backend>>]
         ELSE [m EXCEPT !.queue = Append(@, [key |-> backend.key, operation |-> "add",
                                             backend |-> backend]),
                        !.ret = <<backend>>]

\* removeBackend that applies the operation in every state
removeBackend_unqueued(m, d) ==
    IF ~_createBackendOk(d) THEN [m EXCEPT !.threw = TRUE]
    ELSE LET backend == _createBackend(d)
             m1 == [m EXCEPT !.backends = MapDelete(@, backend.key)]
             m2 == announce(m1, "removed", backend.key)
         IN  [m2 EXCEPT !.ret = <<backend>>]

\* Resolver.removeBackend
removeBackend(m, d) ==
    IF ~_createBackendOk(d) THEN [m EXCEPT !.threw = TRUE]
    ELSE LET backend == _createBackend(d) IN
         IF isInState(m, "running")
         THEN LET m1 == [m EXCEPT !.backends = MapDelete(@, backend.key)]
                  m2 == announce(m1, "removed", backend.key)
                  m3 == IF version = "resolver.js" THEN announce(m2, "updated", <<>>) ELSE m2
              IN  [m3 EXCEPT !.ret = <<backend>>]
         ELSE [m EXCEPT !.queue = Append(@, [key |-> backend.key, operation |-> "remove",
                                             backend |-> backend]),
                        !.ret = <<backend>>]

\* the while loop of state_running (resolver.js) and of _processQueue
\* (part_000), for a machine in which it ends
RECURSIVE drain(_)
drain(m0) ==
    Once(m0, LAMBDA m :
        IF m.queue = <<>> THEN m
        ELSE LET first == Head(m.queue)
                 m1 == [m EXCEPT !.queue = Tail(@)]
             IN  IF first.operation = "add"
                 THEN drain(addBackend(m1, first.backend.service))
                 ELSE drain(removeBackend(m1, first.backend.service)))

\* Resolver._processQueue (part_000)
_processQueue(m) == setImmediate(m, Task("processQueue", <<>>))

state_stopped(m) == m

\* state_starting that sets no immediate and waits for an event
state_starting_waits(m) == m

state_starting(m) ==
    IF version = "part_000" THEN setImmediate(m, Task("starting.immediate", <<>>)) ELSE m

\* state_running that leaves the queue alone
state_running_idle(m) == m

state_running(m) ==
    IF version = "part_000" THEN _processQueue(m) ELSE drain(m)

\* state_stopping that also clears the backends held
state_stopping_clears(m) ==
    setImmediate([m EXCEPT !.backends = <<>>], Task("stopping.immediate", <<>>))

state_stopping(m) == setImmediate(m, Task("stopping.immediate", <<>>))

state_failed(m) == m

\* FSM._gotoState: leave the state, enter s by running state_<s>, and defer
\* the 'stateChanged' notification
gotoState(m, s) ==
    LET m1 == [disconnect(m) EXCEPT !.state = s]
        m2 == CASE s = "stopped"  -> state_stopped(m1)
                [] s = "starting" -> state_starting(m1)
                [] s = "running"  -> state_running(m1)
                [] s = "stopping" -> state_stopping(m1)
                [] s = "failed"   -> state_failed(m1)
    IN  Once([m2 EXCEPT !.toEmit = Append(@, s)], LAMBDA m3 :
            IF Len(m3.toEmit) = 1 THEN setImmediate(m3, Task("stateChanged", <<>>))
            ELSE m3)

\* listener with state_starting also listening to stopAsserted
listener_stopInStarting(s, event) ==
    CASE s = "stopped" /\ event = "startAsserted" -> "starting"
      [] s = "starting" /\ event = "updated" /\ version = "resolver.js" -> "running"
      [] s = "starting" /\ event = "stopAsserted" -> "stopping"
      [] s = "running" /\ event = "stopAsserted" -> "stopping"
      [] s = "failed" /\ event = "stopAsserted" -> "stopping"
      [] s = "failed" /\ event = "updated" /\ version = "resolver.js" -> "running"
      [] s = "failed" /\ event = "added" /\ version = "part_000" -> "running"
      [] OTHER -> ""

\* listener with state_running going to failed on stopAsserted
listener_failsOnStop(s, event) ==
    CASE s = "stopped" /\ event = "startAsserted" -> "starting"
      [] s = "starting" /\ event = "updated" /\ version = "resolver.js" -> "running"
      [] s = "running" /\ event = "stopAsserted" -> "failed"
      [] s = "failed" /\ event = "stopAsserted" -> "stopping"
      [] s = "failed" /\ event = "updated" /\ version = "resolver.js" -> "running"
      [] s = "failed" /\ event = "added" /\ version = "part_000" -> "running"
      [] OTHER -> ""

\* the state that the listener held by the handle of state s goes to on
\* event ("" when the handle holds no listener for it)
listener(s, event) ==
    CASE s = "stopped" /\ event = "startAsserted" -> "starting"
      [] s = "starting" /\ event = "updated" /\ version = "resolver.js" -> "running"
      [] s = "running" /\ event = "stopAsserted" -> "stopping"
      [] s = "failed" /\ event = "stopAsserted" -> "stopping"
      [] s = "failed" /\ event = "updated" /\ version = "resolver.js" -> "running"
      [] s = "failed" /\ event = "added" /\ version = "part_000" -> "running"
      [] OTHER -> ""

\* this.emit of startAsserted, stopAsserted or updated from start, stop and
\* start's callback: the event is delivered and the state handle's listener runs
emit(m0, event) ==
    Once(m0, LAMBDA m :
        LET m1 == announce(m, event, <<>>)
        IN  IF listener(m.state, event) = "" THEN m1
            ELSE gotoState(m1, listener(m.state, event)))

\* Array.prototype.forEach / Map.prototype.forEach over a snapshot of the
\* entries: op is applied to each in order; an exception ends the iteration
RECURSIVE forEach(_, _, _)
forEach(m0, list0, op) ==
    Once(<<m0, list0>>, LAMBDA v :
        LET m == v[1]
            list == v[2]
        IN  IF list = <<>> \/ m.threw THEN m
            ELSE forEach(IF op = "add" THEN addBackend(m, Head(list))
                                       ELSE removeBackend(m, Head(list)),
                         Tail(list), op))

\* the Backends of the Map, passed back to addBackend / removeBackend
\* (_createBackend returns a Backend instance as it is)
values(backends) == [i \in 1..Len(backends) |-> backends[i].service]

\* Resolver._loadBackends: each entry is validated and then added, so the
\* entries before a malformed one are already added when it throws
_loadBackends(m, list) == forEach(m, list, "add")

\* resetBackends that leaves the queue as it is
resetBackends_keepsQueue(m, list) == setImmediate(m, Task("resetBackends", list))

\* Resolver.resetBackends: what runs before the call returns
resetBackends(m, list) ==
    setImmediate([m EXCEPT !.queue = <<>>], Task("resetBackends", list))

\* the setImmediate callback of Resolver.resetBackends
resetBackendsImmediate(m, list) ==
    LET m1 == forEach(m, values(m.backends), "remove")
    IN  Once(_loadBackends(m1, list), LAMBDA m2 :
            IF version = "resolver.js" /\ ~m2.threw
            THEN forEach(m2, values(m2.backends), "add")
            ELSE m2)

\* start without its assertion on the state
start_noAssert(m) ==
    LET m1 == emit(m, "startAsserted")
    IN  IF version = "resolver.js"
        THEN setImmediate(m1, Task("start", <<>>))
        ELSE m1

\* Resolver.start
start(m) ==
    IF ~isInState(m, "stopped") THEN [m EXCEPT !.threw = TRUE]
    ELSE LET m1 == emit(m, "startAsserted")
         IN  IF version = "resolver.js"
             THEN setImmediate(m1, Task("start", <<>>))
             ELSE m1

\* the setImmediate callback of Resolver.start (resolver.js)
startImmediate(m) ==
    emit(forEach(m, values(m.backends), "add"), "updated")

\* stop without its assertion on the state
stop_noAssert(m) == emit(m, "stopAsserted")

\* Resolver.stop
stop(m) ==
    IF isInState(m, "stopped") THEN [m EXCEPT !.threw = TRUE]
    ELSE emit(m, "stopAsserted")

\* Resolver.list
list == _backends

\* Resolver.count
count == Len(_backends)

\* Resolver.getLastError
getLastError == _lastError

-----------------------------------------------------------------------------
(* The state after construction *)

\* new Resolver({defaultPort, backends}): the FSM enters stopped, and
\* _loadBackends queues the backends given
Init ==
    /\ version \in Versions
    /\ \E opts \in Options :
         /\ options = opts
         /\ defaultPort = opts.defaultPort
         /\ _queue = [i \in 1..Len(opts.backends) |->
                        LET backend == Backend(opts.backends[i].address,
                                               IF opts.backends[i].port = undefined
                                               THEN opts.defaultPort
                                               ELSE opts.backends[i].port)
                        IN  [key |-> backend.key, operation |-> "add", backend |-> backend]]
    /\ state = "stopped"
    /\ _backends = <<>>
    /\ _lastError = ""
    /\ immediates = <<Task("stateChanged", <<>>)>>
    /\ fsm_toEmit = <<"stopped">>
    /\ emitted = <<>>
    /\ notified = <<>>
    /\ ops = <<>>
    /\ step = [kind |-> "init", name |-> "constructor"]
    /\ looping = FALSE
    /\ item = <<>>
    /\ crashed = FALSE

-----------------------------------------------------------------------------
(* Steps *)

\* the thread is free to take the next turn
Idle == ~looping /\ ~crashed

\* the fields of m become the state
Commit(m) ==
    /\ state' = m.state
    /\ _backends' = m.backends
    /\ _queue' = m.queue
    /\ immediates' = m.immediates
    /\ fsm_toEmit' = m.toEmit
    /\ emitted' = m.emitted

CycleOps == {"start", "stop", "resetBackends"}

\* the consumer may still make a call of op
CallAllowed(op) ==
    \/ Len(ops) < MaxCalls
    \/ /\ Len(ops) < MaxCycleCalls
       /\ op \in CycleOps
       /\ \A i \in DOMAIN ops : ops[i].op \in CycleOps

\* a call of the consumer that ran the code m's fields result from
Call(op, arg, m0) ==
    /\ Idle
    /\ CallAllowed(op)
    /\ \E m \in {m0} :
         /\ Commit(m)
         /\ ops' = Append(ops, [op |-> op, arg |-> arg, at |-> state,
                                threw |-> m.threw, ret |-> m.ret])
    /\ step' = [kind |-> "call", name |-> op]
    /\ UNCHANGED <<version, options, defaultPort, notified, looping, item, crashed>>

CallStart ==
    /\ Call("start", <<>>, start(Machine))
    /\ UNCHANGED _lastError

CallStop ==
    /\ Call("stop", <<>>, stop(Machine))
    /\ UNCHANGED _lastError

CallAddBackend ==
    \E d \in Descrs :
        /\ Call("addBackend", <<d>>, addBackend(Machine, d))
        /\ UNCHANGED _lastError

CallRemoveBackend ==
    \E d \in Descrs :
        /\ Call("removeBackend", <<d>>, removeBackend(Machine, d))
        /\ UNCHANGED _lastError

CallResetBackends ==
    \E l \in ResetLists :
        /\ Call("resetBackends", l, resetBackends(Machine, l))
        /\ UNCHANGED _lastError

\* EmitError with a listener that keeps the first error
EmitError_first ==
    \E err \in Errors :
        /\ Call(err, <<>>, Machine)
        /\ _lastError' = IF _lastError = "" THEN err ELSE _lastError

\* resolver.emit('error', err): the constructor's listener records it
EmitError ==
    \E err \in Errors :
        /\ Call(err, <<>>, Machine)
        /\ _lastError' = err

\* the callback at the head of the setImmediate queue runs; an exception
\* that leaves it is uncaught
Run(kind, m0) ==
    /\ Idle
    /\ immediates # <<>>
    /\ Head(immediates).kind = kind
    /\ \E m \in {m0} :
         /\ Commit(m)
         /\ crashed' = m.threw
    /\ step' = [kind |-> "task", name |-> kind]
    /\ UNCHANGED <<version, options, defaultPort, _lastError, ops, looping, item>>

\* the machine as the callback at the head of the queue finds it
Dequeued == [Machine EXCEPT !.immediates = Tail(@)]

\* FSM: the deferred 'stateChanged' notifications are delivered
RunStateChanged ==
    /\ Run("stateChanged", [Dequeued EXCEPT !.toEmit = <<>>])
    /\ notified' = notified \o fsm_toEmit

\* state_starting's immediate (part_000)
RunStartingImmediate ==
    /\ Run("starting.immediate", gotoState(Dequeued, "running"))
    /\ UNCHANGED notified

\* state_stopping's immediate
RunStoppingImmediate ==
    /\ Run("stopping.immediate", gotoState(Dequeued, "stopped"))
    /\ UNCHANGED notified

\* start()'s setImmediate callback (resolver.js)
RunStartImmediate ==
    /\ Run("start", startImmediate(Dequeued))
    /\ UNCHANGED notified

\* resetBackends()'s setImmediate callback
RunResetBackendsImmediate ==
    /\ immediates # <<>>
    /\ Run("resetBackends", resetBackendsImmediate(Dequeued, Head(immediates).list))
    /\ UNCHANGED notified

\* whether the while loop of _processQueue's callback ends: outside running
\* addBackend / removeBackend push the item they are given back on the queue
processQueueEnds == state = "running" \/ _queue = <<>>

\* _processQueue's setImmediate callback (part_000), when its loop ends
RunProcessQueue ==
    /\ processQueueEnds
    /\ Run("processQueue", drain(Dequeued))
    /\ UNCHANGED notified

\* the while loop of _processQueue's callback when it does not end: the
\* callback is entered, or the loop comes round, and the loop shifts an item
\* off the queue
LoopProcessQueueShift ==
    /\ ~crashed
    /\ ~processQueueEnds
    /\ item = <<>>
    /\ \/ looping
       \/ ~looping /\ immediates # <<>> /\ Head(immediates).kind = "processQueue"
    /\ looping' = TRUE
    /\ immediates' = IF looping THEN immediates ELSE Tail(immediates)
    /\ item' = <<Head(_queue)>>
    /\ _queue' = Tail(_queue)
    /\ step' = [kind |-> "task", name |-> "processQueue"]
    /\ UNCHANGED <<version, options, defaultPort, state, _backends, _lastError,
                   fsm_toEmit, emitted, notified, ops, crashed>>

\* the loop passes the item to addBackend / removeBackend, which pushes it
\* back on the queue
LoopProcessQueuePush ==
    /\ ~crashed
    /\ looping
    /\ item # <<>>
    /\ \E m \in {IF item[1].operation = "add"
                  THEN addBackend(Machine, item[1].backend.service)
                  ELSE removeBackend(Machine, item[1].backend.service)} : Commit(m)
    /\ item' = <<>>
    /\ step' = [kind |-> "task", name |-> "processQueue"]
    /\ UNCHANGED <<version, options, defaultPort, _lastError, notified, ops, looping,
                   crashed>>

\* resetBackends called with a list that holds a malformed descriptor
CallResetBackendsMalformed ==
    \E l \in MalformedLists :
        /\ Call("resetBackends", l, resetBackends(Machine, l))
        /\ UNCHANGED _lastError

\* The FSM is driven into failed from outside the Resolver's own code: the
\* Resolver has no gotoState(failed); the lifecycle comment and the
\* specification give starting -> failed and running -> failed on an error.
RuntimeFailure ==
    /\ Idle
    /\ state \in {"starting", "running"}
    /\ \E m \in {gotoState(Machine, "failed")} : Commit(m)
    /\ step' = [kind |-> "fail", name |-> "error"]
    /\ UNCHANGED <<version, options, defaultPort, _lastError, notified, ops, looping,
                   item, crashed>>

Calls ==
    \/ CallStart
    \/ CallStop
    \/ CallAddBackend
    \/ CallRemoveBackend
    \/ CallResetBackends
    \/ EmitError

Tasks ==
    \/ RunStateChanged
    \/ RunStartingImmediate
    \/ RunStoppingImmediate
    \/ RunStartImmediate
    \/ RunResetBackendsImmediate
    \/ RunProcessQueue
    \/ LoopProcessQueueShift
    \/ LoopProcessQueuePush

Next == Calls \/ Tasks

\* the Resolver's own code, driven by a consumer that passes resetBackends
\* well-formed lists
Spec == Init /\ [][Next]_vars

\* Spec with the event loop running the callbacks that setImmediate has
\* queued, one after the other
LiveSpec == Init /\ [][Next]_vars /\ WF_vars(Tasks)

NextF == Next \/ RuntimeFailure

\* Spec with the FSM also driven into failed
SpecF == Init /\ [][NextF]_vars

\* SpecF with the event loop running the callbacks that setImmediate has
\* queued, one after the other
LiveSpecF == Init /\ [][NextF]_vars /\ WF_vars(Tasks)

NextM == Next \/ CallResetBackendsMalformed

\* Spec with a consumer that also passes resetBackends malformed lists
SpecM == Init /\ [][NextM]_vars

\* addBackend called with a descriptor of BackendDescrs
CallAddBackendDescr ==
    \E d \in BackendDescrs :
        /\ Call("addBackend", <<d>>, addBackend(Machine, d))
        /\ UNCHANGED _lastError

NextB ==
    \/ CallStart
    \/ CallAddBackendDescr
    \/ RunStateChanged
    \/ RunStartingImmediate
    \/ RunStartImmediate
    \/ RunProcessQueue

\* the Resolver of a consumer that starts it and adds Backends, of every
\* address and port of BackendDescrs
SpecB == Init /\ [][NextB]_vars

-----------------------------------------------------------------------------
(* Vocabulary of the properties *)

\* this step is a call of op by the consumer
Calling(op) == Len(ops') = Len(ops) + 1 /\ Last(ops').op = op

\* the 'added' and 'removed' events of a history of events
Membership(events) == SelectSeq(events, LAMBDA e : e.event \in {"added", "removed"})

\* the event loop has nothing left to run
Quiet == Idle /\ immediates = <<>>

IsPrefix(s, t) == Len(s) <= Len(t) /\ s = SubSeq(t, 1, Len(s))

\* the states the machine has entered so far, in order
visited == notified \o fsm_toEmit

\* d is a descriptor that new Backend accepts once the port is defaulted
Valid(d) == isIP(d.address) /\ (d.port = undefined \/ isNumber(d.port))

\* the port a Backend made from descriptor d carries
PortOf(d) == IF d.port = undefined THEN defaultPort ELSE d.port

\* b is the Backend that descriptor d resolves to
Resolves(b, d) ==
    /\ b.service = [name |-> <<d.address, PortOf(d)>>, address |-> d.address,
                    port |-> PortOf(d)]
    /\ b.key = <<b.service.name, PortOf(d), toNormalizedString(d.address)>>

\* the events that applying the queue entries Q one by one emits
Events(Q) ==
    [i \in 1..Len(Q) |->
        [event |-> IF Q[i].operation = "add" THEN "added" ELSE "removed",
         key |-> Q[i].key]]

\* the backends that applying the queue entries Q one by one, first to last,
\* leaves
RECURSIVE Replay(_, _)
Replay(backends, Q) ==
    IF Q = <<>> THEN backends
    ELSE LET e == Head(Q)
             others == SelectSeq(backends, LAMBDA x : x.key # e.key)
         IN  Replay(IF e.operation = "remove" THEN others
                    ELSE IF Len(others) = Len(backends) THEN Append(backends, e.backend)
                    ELSE [i \in 1..Len(backends) |->
                            IF backends[i].key = e.key THEN e.backend ELSE backends[i]],
                    Tail(Q))

-----------------------------------------------------------------------------
(* C1 *)

C1_Edges ==
    { <<"stopped", "starting">>, <<"starting", "running">>, <<"running", "stopping">>,
      <<"stopping", "stopped">>, <<"failed", "running">>, <<"failed", "stopping">> }

\* the consumer has called start() and then, in running, stop(), and nothing else
C1_StartThenStop ==
    /\ Len(ops) = 2
    /\ ops[1].op = "start" /\ ~ops[1].threw
    /\ ops[2].op = "stop" /\ ops[2].at = "running"

-----------------------------------------------------------------------------
(* C2 *)

\* C2: a start() call in a state other than stopped throws and changes
\* nothing (state, backends, queue, pending callbacks, events, notifications);
\* a start() call in stopped does not throw and has moved the state to
\* starting when it returns, with backends and the queue as before and no
\* added or removed event emitted.
C2_Start ==
    [][Calling("start") =>
         IF state # "stopped"
         THEN /\ Last(ops').threw
              /\ UNCHANGED <<state, _backends, _queue, _lastError, immediates,
                             fsm_toEmit, emitted, notified>>
         ELSE /\ ~Last(ops').threw
              /\ state' = "starting"
              /\ UNCHANGED <<_backends, _queue>>
              /\ Membership(emitted') = Membership(emitted)]_vars

\* start() has both succeeded and thrown; it threw in failed
C2_Witness ==
    \E i, j \in DOMAIN ops :
        /\ ops[i].op = "start" /\ ~ops[i].threw /\ ops[i].at = "stopped"
        /\ ops[j].op = "start" /\ ops[j].threw /\ ops[j].at = "failed"

-----------------------------------------------------------------------------
(* C3 *)

\* C3: a stop() call in stopped throws and changes nothing; a stop() call in
\* any other state does not throw and emits stopAsserted (one event, and no
\* other event, is added to the history).
C3_Stop ==
    [][Calling("stop") =>
         IF state = "stopped"
         THEN /\ Last(ops').threw
              /\ UNCHANGED <<state, _backends, _queue, _lastError, immediates,
                             fsm_toEmit, emitted, notified>>
         ELSE /\ ~Last(ops').threw
              /\ emitted' = Append(emitted, [event |-> "stopAsserted", key |-> <<>>])]_vars

\* stop() has thrown in stopped and has succeeded in failed
C3_Witness ==
    \E i, j \in DOMAIN ops :
        /\ ops[i].op = "stop" /\ ops[i].threw /\ ops[i].at = "stopped"
        /\ ops[j].op = "stop" /\ ~ops[j].threw /\ ops[j].at = "failed"

-----------------------------------------------------------------------------
(* C4 *)

\* C4: once a start() call has moved the machine to starting, the machine
\* reaches running, whatever the consumer does or does not do meanwhile and
\* whatever the initial backend list was.
C4_StartReachesRunning == (state = "starting") ~> (state = "running")

\* running was reached after a single start() call of a Resolver constructed
\* with no backends: no further call and no membership event came before it
C4_Witness ==
    /\ Len(ops) = 1 /\ ops[1].op = "start"
    /\ state = "running"
    /\ Membership(emitted) = <<>>
    /\ Quiet

-----------------------------------------------------------------------------
(* C5 *)

\* C5: once a stop() call in running has moved the machine to stopping, the
\* machine reaches stopped, whatever callbacks were pending at the stop().
\* (part_000 does not: with the callback of _processQueue pending on a queue
\* that is not empty, the callback's loop never ends.)
C5_StopReachesStopped == (state = "stopping") ~> (state = "stopped")

\* stop() was called in running while _processQueue's callback was pending
\* with a queue that is not empty
C5_Witness ==
    /\ ops # <<>> /\ Last(ops).op = "stop" /\ Last(ops).at = "running"
    /\ step = [kind |-> "call", name |-> "stop"]
    /\ state = "stopping"
    /\ _queue # <<>>
    /\ \E i \in DOMAIN immediates : immediates[i].kind = "processQueue"

-----------------------------------------------------------------------------
(* C6 *)

\* C6: addBackend(d) or removeBackend(d) with a valid descriptor, called in a
\* state other than running, does not throw, returns the Backend d resolves
\* to, appends one entry with the operation and that Backend at the tail of
\* the queue (the earlier entries as they were), and leaves the state, the
\* backends and the history of events as they were.
C6_QueuedWhenNotRunning ==
    [][\A op \in {"addBackend", "removeBackend"} :
         Calling(op) /\ state # "running" /\ Valid(Last(ops').arg[1]) =>
             LET d == Last(ops').arg[1]
                 ret == Last(ops').ret
             IN  /\ ~Last(ops').threw
                 /\ Len(ret) = 1 /\ Resolves(ret[1], d)
                 /\ Len(_queue') = Len(_queue) + 1
                 /\ SubSeq(_queue', 1, Len(_queue)) = _queue
                 /\ Last(_queue').operation = (IF op = "addBackend" THEN "add" ELSE "remove")
                 /\ Last(_queue').backend = ret[1]
                 /\ UNCHANGED <<state, _backends, emitted>>]_vars

\* removeBackend was queued in starting and addBackend, behind it, in failed
C6_Witness ==
    \E i, j \in DOMAIN ops :
        /\ i < j
        /\ ops[i].op = "removeBackend" /\ ops[i].at = "starting" /\ ~ops[i].threw
        /\ ops[j].op = "addBackend" /\ ops[j].at = "failed" /\ ~ops[j].threw
        /\ Len(_queue) >= 2
        /\ _queue[Len(_queue) - 1].operation = "remove"
        /\ Last(_queue).operation = "add"

-----------------------------------------------------------------------------
(* C7 *)

\* C7: addBackend(d) with a valid descriptor, called in running, does not
\* throw and is applied when it returns: the Backend d resolves to is in
\* backends under its key, once; the entries under other keys are as they
\* were, in the same order; one added event for the key, and no other added
\* or removed event, joins the history; the queue is as it was.
C7_AddWhenRunning ==
    [][Calling("addBackend") /\ state = "running" /\ Valid(Last(ops').arg[1]) =>
         LET d == Last(ops').arg[1]
             ret == Last(ops').ret
             other(x) == x.key # ret[1].key
         IN  /\ ~Last(ops').threw
             /\ Len(ret) = 1 /\ Resolves(ret[1], d)
             /\ Cardinality({i \in DOMAIN _backends' : _backends'[i] = ret[1]}) = 1
             /\ Cardinality({i \in DOMAIN _backends' : _backends'[i].key = ret[1].key}) = 1
             /\ SelectSeq(_backends', other) = SelectSeq(_backends, other)
             /\ Membership(emitted') =
                    Append(Membership(emitted), [event |-> "added", key |-> ret[1].key])
             /\ _queue' = _queue]_vars

\* addBackend in running has added a key that was absent and, in another
\* call, one that was present
C7_Witness ==
    /\ Len(ops) = 3
    /\ ops[2].op = "addBackend" /\ ops[2].at = "running" /\ ~ops[2].threw
    /\ ops[3] = ops[2]
    /\ step = [kind |-> "call", name |-> "addBackend"]
    /\ count = Len(options.backends) + 1

-----------------------------------------------------------------------------
(* C8 *)

\* C8: removeBackend(d) with a valid descriptor, called in running, does not
\* throw and is applied when it returns: no entry of backends is under the
\* key of the Backend d resolves to, the entries under other keys are as
\* they were, in the same order (so backends is as it was when the key was
\* absent), and the queue is as it was.
C8_RemoveWhenRunning ==
    [][Calling("removeBackend") /\ state = "running" /\ Valid(Last(ops').arg[1]) =>
         LET d == Last(ops').arg[1]
             ret == Last(ops').ret
         IN  /\ ~Last(ops').threw
             /\ Len(ret) = 1 /\ Resolves(ret[1], d)
             /\ ret[1].key \notin Keys(_backends')
             /\ _backends' = SelectSeq(_backends, LAMBDA x : x.key # ret[1].key)
             /\ _queue' = _queue]_vars

\* removeBackend in running has removed a backend that was held and, in
\* another call, found the same key absent
C8_Witness ==
    /\ Len(ops) = 3
    /\ ops[2].op = "removeBackend" /\ ops[2].at = "running" /\ ~ops[2].threw
    /\ ops[3] = ops[2]
    /\ options.backends # <<>> /\ ops[2].arg[1] = options.backends[1]
    /\ step = [kind |-> "call", name |-> "removeBackend"]
    /\ count = Len(options.backends) - 1

-----------------------------------------------------------------------------
(* C9 *)

\* the queue as the machine enters running in this step: start()'s callback
\* (resolver.js) first passes the backends held to addBackend, which queues them
C9_Pending ==
    IF version = "resolver.js"
    THEN _queue \o [i \in 1..Len(_backends) |->
                      [key |-> _backends[i].key, operation |-> "add", backend |-> _backends[i]]]
    ELSE _queue

\* this step is the drain of the queue of a running machine, run to its end
C9_Drain ==
    IF version = "resolver.js"
    THEN state # "running" /\ state' = "running"
    ELSE state = "running" /\ step'.name = "processQueue" /\ ~looping'

\* C9: when the machine has entered running with a queue that is not empty,
\* the queue is drained: the drain applies the entries to backends first to
\* last, emits for each, in that order, its added or removed event, and
\* leaves the queue empty; and a running machine whose queue is not empty
\* gets its queue drained.
\* (part_000 does not: the drain waits for a callback, and when stop() comes
\* before the callback its loop never ends and no entry is applied.)
C9_DrainOnRunning ==
    /\ [][C9_Drain =>
             /\ _backends' = Replay(_backends, C9_Pending)
             /\ Membership(emitted') = Membership(emitted) \o Events(C9_Pending)
             /\ _queue' = <<>>]_vars
    /\ (state = "running" /\ _queue # <<>>) ~> (_queue = <<>>)

\* a queue of two entries has been drained in running
C9_Witness ==
    /\ state = "running"
    /\ step.name \in {"processQueue", "start"}
    /\ Len(ops) = 1
    /\ _queue = <<>>
    /\ Len(options.backends) = 2
    /\ Len(Membership(emitted)) = 2

-----------------------------------------------------------------------------
(* C10 *)

\* the services of the backends given to the constructor, ports defaulted
C10_Expected ==
    [i \in 1..Len(options.backends) |->
        LET d == options.backends[i]
            port == IF d.port = undefined THEN options.defaultPort ELSE d.port
        IN  [name |-> <<d.address, port>>, address |-> d.address, port |-> port]]

\* the consumer has called start(), and nothing else
C10_Started == Len(ops) = 1 /\ ops[1].op = "start"

C10_RunningNotified == \E i \in DOMAIN notified : notified[i] = "running"

\* C10: a Resolver constructed with n backends and then started, once it is
\* running or its consumer has been notified of running, has emitted n
\* added events and no removed event, list() is the n backends in the order
\* given, the ports defaulted to defaultPort, the events are for their keys
\* in that order, and count() is n.
\* (part_000 does not: it enters running, and can notify of it, before the
\* callback of _processQueue has added the backends.)
C10_StartHoldsBackends ==
    C10_Started /\ (state = "running" \/ C10_RunningNotified) =>
        /\ count = Len(options.backends)
        /\ [i \in 1..count |-> list[i].service] = C10_Expected
        /\ Membership(emitted) = [i \in 1..count |-> [event |-> "added", key |-> list[i].key]]

\* the consumer of a Resolver constructed with two backends, one without a
\* port, has been notified of running after its start()
C10_Witness ==
    /\ C10_Started /\ C10_RunningNotified
    /\ Len(options.backends) = 2
    /\ Quiet

-----------------------------------------------------------------------------
(* C11 *)

-----------------------------------------------------------------------------
(* C12 *)

\* the keys that the added and removed events of a history leave, from none
RECURSIVE ReplayKeys(_)
ReplayKeys(events) ==
    IF events = <<>> THEN {}
    ELSE LET e == Last(events)
             before == ReplayKeys(SubSeq(events, 1, Len(events) - 1))
         IN  IF e.event = "added" THEN before \cup {e.key}
             ELSE IF e.event = "removed" THEN before \ {e.key}
             ELSE before

\* C12: in every reachable state the keys of backends are the keys that the
\* added and removed events emitted so far leave when replayed from none.
C12_BackendsAreEventsReplayed == Keys(_backends) = ReplayKeys(emitted)

\* backends have been added and one of them removed again
C12_Witness ==
    /\ count = 1
    /\ \E i \in DOMAIN emitted : emitted[i].event = "removed"
    /\ Len(SelectSeq(emitted, LAMBDA e : e.event = "added")) = 2

-----------------------------------------------------------------------------
(* C13 *)

\* C13: no key of backends is held in the queue by an add entry.
\* (The code does not keep this: addBackend outside running queues the
\* entry without looking at backends, and resolver.js itself queues the
\* backends held, in the callbacks of start() and of resetBackends().)
C13_QueueDisjoint ==
    \A i \in DOMAIN _queue :
        _queue[i].operation = "add" => _queue[i].key \notin Keys(_backends)

\* backends are held and the queue holds an add entry for another key
C13_Witness ==
    /\ count > 0
    /\ \E i \in DOMAIN _queue : _queue[i].operation = "add"
    /\ C13_QueueDisjoint

-----------------------------------------------------------------------------
(* C14 *)

\* C14: a resetBackends(L) call, in any state, does not throw, leaves the
\* queue empty, and changes nothing else but the callback it sets for a
\* later turn: the state, backends, the events emitted and the pending
\* notifications are as before.
C14_ResetCall ==
    [][Calling("resetBackends") =>
         /\ ~Last(ops').threw
         /\ _queue' = <<>>
         /\ UNCHANGED <<state, _backends, emitted, fsm_toEmit, notified, _lastError>>
         /\ immediates' = Append(immediates, [kind |-> "resetBackends",
                                              list |-> Last(ops').arg])]_vars

\* resetBackends has discarded the entries the constructor queued, and, in
\* another call in running, has left the backends held in place
C14_Witness ==
    /\ Len(ops) = 3
    /\ options.backends # <<>>
    /\ ops[1].op = "resetBackends" /\ ops[1].at = "stopped"
    /\ ops[3].op = "resetBackends" /\ ops[3].at = "running"
    /\ step = [kind |-> "call", name |-> "resetBackends"]
    /\ count > 0

-----------------------------------------------------------------------------
(* C15 *)

\* the keys of the Backends that the descriptors of the list L resolve to
KeysOf(L) ==
    { <<<<L[i].address, PortOf(L[i])>>, PortOf(L[i]), toNormalizedString(L[i].address)>> :
        i \in DOMAIN L }

\* call k is a resetBackends made outside running, the only resetBackends
\* called, and no addBackend or removeBackend was called after it
C15_LastMutationIsReset(k) ==
    /\ ops[k].op = "resetBackends" /\ ops[k].at # "running"
    /\ \A j \in DOMAIN ops : j # k => ops[j].op # "resetBackends"
    /\ \A j \in (k + 1)..Len(ops) : ops[j].op \notin {"addBackend", "removeBackend"}

\* C15 (resolver.js): when resetBackends(L) was called outside running and
\* no mutation was issued after it, then, the machine running with its
\* queue drained and no callback pending, the keys of list() are the keys
\* of L.
\* (resolver.js does not keep this when backends are held from an earlier
\* start/stop cycle: the callbacks of resetBackends() and of start() queue
\* them again behind the entries of the reset.)
C15_ResetThenRunning ==
    \A k \in DOMAIN ops :
        /\ version = "resolver.js"
        /\ C15_LastMutationIsReset(k)
        /\ state = "running" /\ _queue = <<>> /\ Quiet
        => Keys(list) = KeysOf(ops[k].arg)

\* resetBackends([D2, D1]) before start() has replaced the backends given to
\* the constructor
C15_Witness ==
    /\ version = "resolver.js"
    /\ options.backends = <<D2>>
    /\ Len(ops) = 2 /\ C15_LastMutationIsReset(1) /\ ops[1].arg = <<D2, D1>>
    /\ state = "running" /\ _queue = <<>> /\ Quiet
    /\ count = 2

-----------------------------------------------------------------------------
(* C16 *)

\* the resetBackends call that set the callback at the head of the
\* setImmediate queue: callbacks run first in first out, so the callbacks
\* pending are those of the last calls
C16_CallOfCallback ==
    LET calls == SelectSeq(ops, LAMBDA o : o.op = "resetBackends")
        pending == SelectSeq(immediates, LAMBDA t : t.kind = "resetBackends")
    IN  calls[Len(calls) - Len(pending) + 1]

\* this step is the callback of resetBackends, run in running
C16_ResetCallbackInRunning ==
    /\ state = "running"
    /\ step'.kind = "task" /\ step'.name = "resetBackends"

\* C16 (resolver.js): the callback of a resetBackends(L) called in running,
\* run in running, emits one removed event for each backend held, then one added event for
\* each entry of L in the order of L, and no other added or removed event,
\* and leaves list() the Backends of L in that order.
\* (resolver.js emits each added event twice: after loading L the callback
\* passes every backend held to addBackend again.)
C16_ResetWhenRunning ==
    [][/\ version = "resolver.js"
       /\ C16_ResetCallbackInRunning
       /\ C16_CallOfCallback.at = "running"
       =>
         LET L == Head(immediates).list
         IN  /\ Len(list') = Len(L)
             /\ \A i \in DOMAIN L : Resolves(list'[i], L[i])
             /\ Membership(emitted') =
                    Membership(emitted)
                    \o [i \in 1..count |-> [event |-> "removed", key |-> list[i].key]]
                    \o [i \in 1..Len(L) |-> [event |-> "added", key |-> list'[i].key]]]_vars

\* the callback of resetBackends() has removed the two backends held
C16_Witness ==
    /\ version = "resolver.js"
    /\ Len(ops) = 2 /\ ops[2].op = "resetBackends" /\ ops[2].at = "running"
    /\ state = "running"
    /\ step = [kind |-> "task", name |-> "resetBackends"]
    /\ count = 0
    /\ Len(SelectSeq(emitted, LAMBDA e : e.event = "removed")) = 2

-----------------------------------------------------------------------------
(* C17 *)

\* the last two calls are a resetBackends and, after it, an addBackend that
\* returned, both in running, and the callback of that resetBackends is the
\* one about to run (callbacks run first in first out, so a resetBackends
\* callback still pending after the last resetBackends call is its own)
C17_AddAfterReset ==
    /\ Len(ops) >= 2
    /\ ops[Len(ops) - 1].op = "resetBackends" /\ ops[Len(ops) - 1].at = "running"
    /\ Last(ops).op = "addBackend" /\ Last(ops).at = "running" /\ ~Last(ops).threw
    /\ immediates # <<>>
    /\ Head(immediates) = [kind |-> "resetBackends", list |-> ops[Len(ops) - 1].arg]

\* C17: in running, when addBackend(b) is called after resetBackends() has
\* returned and before its callback runs, b is in list() once the callback
\* has run.
\* (The code does not keep this: the callback removes every backend held at
\* the moment it runs, b with them.)
C17_AddSurvivesReset ==
    [][C17_AddAfterReset /\ C16_ResetCallbackInRunning =>
         Last(ops).ret[1].key \in Keys(list')]_vars

\* the callback of a resetBackends has run after an addBackend that followed
\* the call, and list() holds the backend
C17_Witness ==
    /\ Len(ops) = 3
    /\ ops[2].op = "resetBackends" /\ ops[2].at = "running"
    /\ ops[3].op = "addBackend" /\ ops[3].at = "running" /\ ~ops[3].threw
    /\ step = [kind |-> "task", name |-> "resetBackends"]
    /\ ops[3].ret[1].key \in Keys(list)

-----------------------------------------------------------------------------
(* C18 *)

\* the error emitted last ("" when none was)
C18_LastEmitted ==
    LET errs == SelectSeq(ops, LAMBDA o : o.op \in Errors)
    IN  IF errs = <<>> THEN "" ELSE Last(errs).op

\* C18: in every state getLastError() is the error emitted last, absent
\* when none was emitted (so no step, a read of it included, clears it or
\* puts an earlier error back); and the step that records an error leaves
\* the state, backends, the queue, the events and the callbacks as they were.
C18_GetLastError ==
    /\ [](getLastError = C18_LastEmitted)
    /\ [][\A err \in Errors : Calling(err) =>
             UNCHANGED <<state, _backends, _queue, emitted, immediates, fsm_toEmit>>]_vars

\* two errors were emitted one after the other, and a call later the second
\* is still the one recorded
C18_Witness ==
    /\ Len(ops) = 3
    /\ ops[1].op = "My Error 1" /\ ops[2].op = "My Error 2" /\ ops[3].op = "start"
    /\ getLastError = "My Error 2"

-----------------------------------------------------------------------------
(* C19 *)

\* C19: addBackend(d) or removeBackend(d) with a malformed descriptor throws
\* at the call, in every state, and changes nothing: the state, backends,
\* the queue, the events emitted, the callbacks and the notifications are
\* as before.
C19_MalformedThrows ==
    [][\A op \in {"addBackend", "removeBackend"} :
         Calling(op) /\ ~Valid(Last(ops').arg[1]) =>
             /\ Last(ops').threw
             /\ UNCHANGED <<state, _backends, _queue, emitted, immediates, fsm_toEmit,
                            notified, _lastError>>]_vars

\* removeBackend threw in stopped on a port that is not a number and
\* addBackend threw in running on an address that is not an IP address
C19_Witness ==
    /\ Len(ops) = 3
    /\ ops[1] = [op |-> "removeBackend", arg |-> <<D4>>, at |-> "stopped", threw |-> TRUE,
                 ret |-> <<>>]
    /\ ops[3] = [op |-> "addBackend", arg |-> <<D3>>, at |-> "running", threw |-> TRUE,
                 ret |-> <<>>]

-----------------------------------------------------------------------------
(* C20 *)

\* the list L holds a malformed descriptor
Malformed(L) == \E i \in DOMAIN L : ~Valid(L[i])

\* C20: a resetBackends(L) call with a malformed descriptor in L throws at
\* the call, and neither the call nor anything it sets off changes backends
\* or emits an added or removed event.
\* (The code does not: the call returns normally, and the list is only
\* looked at in the setImmediate callback, after the backends held were
\* removed; the entries before the malformed one are loaded, and the
\* exception leaves the callback uncaught.)
C20_MalformedReset ==
    /\ [][Calling("resetBackends") /\ Malformed(Last(ops').arg) =>
             /\ Last(ops').threw
             /\ UNCHANGED <<_backends, emitted>>]_vars
    /\ [][/\ step'.kind = "task" /\ step'.name = "resetBackends"
          /\ Malformed(Head(immediates).list)
          => UNCHANGED <<_backends, emitted>>]_vars

\* the callback of a resetBackends with a malformed list has run in
\* running: the exception left it after the entry before the malformed one
\* was loaded
C20_Witness ==
    /\ crashed
    /\ state = "running"
    /\ step = [kind |-> "task", name |-> "resetBackends"]
    /\ count = 1

-----------------------------------------------------------------------------
(* C21 *)

\* C21: an error emitted on the error channel while the machine is running
\* is recorded as the last error and takes the machine from running to
\* failed.
\* (The code does not: the constructor's listener on 'error' records the
\* error and nothing else; no state handle listens to 'error' and the code
\* has no gotoState(failed), so the machine stays in running.)
C21_ErrorFails ==
    [][\A err \in Errors :
         Calling(err) /\ state = "running" =>
             _lastError' = err /\ state' = "failed"]_vars

\* an error was emitted in running and is the one recorded
C21_Witness ==
    /\ step.kind = "call" /\ step.name \in Errors
    /\ Last(ops).at = "running"
    /\ getLastError = step.name

-----------------------------------------------------------------------------
(* C22 *)

\* this state is the one in which a call of addBackend with a valid
\* descriptor, made in failed, has returned, with no callback left to run
C22_AddedInFailed ==
    /\ step = [kind |-> "call", name |-> "addBackend"]
    /\ Last(ops).at = "failed"
    /\ ~Last(ops).threw
    /\ immediates = <<>>

\* C22: an addBackend(d) call with a valid descriptor made in failed brings
\* the machine back to running: when the call has returned and no callback
\* is left that could still do it, the machine is running.
\* (The code does not: addBackend emits added, or updated, only when the
\* machine is running; in failed it queues the operation and emits nothing,
\* so the listeners of state_failed never run and the machine stays failed.)
C22_AddRecovers == C22_AddedInFailed => state = "running"

\* addBackend was called in failed with a valid descriptor and has queued it
C22_Witness ==
    /\ C22_AddedInFailed
    /\ _queue # <<>>
    /\ Last(_queue).key = Last(ops).ret[1].key

-----------------------------------------------------------------------------
(* C23 *)

\* the machine is in the stopping that a stop() called in failed took it to
C23_StoppingFromFailed ==
    /\ state = "stopping"
    /\ ops # <<>> /\ Last(ops).op = "stop" /\ Last(ops).at = "failed"

\* C23: stop() called in failed does not throw and takes the machine to
\* stopping; from there the machine reaches stopped; and a start() called in
\* stopped after the machine has been in failed is accepted.
\* (part_000 does not reach stopped when a callback of _processQueue is
\* pending on a queue that is not empty: the callback runs in failed or in
\* stopping, where its loop never ends.)
C23_StopFromFailed ==
    /\ [][Calling("stop") /\ state = "failed" =>
             ~Last(ops').threw /\ state' = "stopping"]_vars
    /\ C23_StoppingFromFailed ~> (state = "stopped")
    /\ [][/\ Calling("start") /\ state = "stopped"
          /\ \E i \in DOMAIN visited : visited[i] = "failed"
          => ~Last(ops').threw /\ state' = "starting"]_vars

\* stop() was called in failed, the machine has stopped, and a new start()
\* was accepted
C23_Witness ==
    /\ Len(ops) = 3
    /\ ops[1].op = "start"
    /\ ops[2].op = "stop" /\ ops[2].at = "failed" /\ ~ops[2].threw
    /\ ops[3].op = "start" /\ ops[3].at = "stopped" /\ ~ops[3].threw
    /\ IsPrefix(<<"stopped", "starting", "failed", "stopping", "stopped", "starting">>, visited)

-----------------------------------------------------------------------------
(* C24 *)

\* this step is the callback of state_stopping taking the machine to stopped
C24_Stopped == step'.kind = "task" /\ step'.name = "stopping.immediate"

\* C24: stop() discards nothing that was applied: a stop() call and the
\* step from stopping to stopped leave backends and the queue unchanged and
\* emit no added or removed event, and no step taken in stopping changes
\* backends, so list() in stopped is list() as it was before the stop().
C24_StopKeepsBackends ==
    /\ [][Calling("stop") \/ C24_Stopped =>
             /\ UNCHANGED <<_backends, _queue>>
             /\ Membership(emitted') = Membership(emitted)]_vars
    /\ [][state = "stopping" => UNCHANGED _backends]_vars

\* a machine holding backends was stopped, got an operation queued while
\* stopping, and has reached stopped
C24_Witness ==
    /\ state = "stopped"
    /\ step = [kind |-> "task", name |-> "stopping.immediate"]
    /\ ops # <<>> /\ \E i \in DOMAIN ops : ops[i].op = "stop" /\ ~ops[i].threw
    /\ count > 0
    /\ _queue # <<>>

-----------------------------------------------------------------------------
(* C25 *)

\* the calls that constructed a Backend
Constructions == {i \in DOMAIN ops : ops[i].ret # <<>>}

\* the Backend that call i constructed
Constructed(i) == ops[i].ret[1]

-----------------------------------------------------------------------------
(* C26 *)

\* services a and b are one address, in whatever spelling, and one port
SameEndpoint(a, b) ==
    toNormalizedString(a.address) = toNormalizedString(b.address) /\ a.port = b.port

\* C26: two Backends constructed with one port and two spellings of one IPv6
\* address have the same key, and the Resolver holds them as one backend.
\* (The code does not: the name `${address}:${port}`, which goes into the
\* digest, is built from the address as it was spelled; only the third part
\* of the digest is the normalized address.)
C26_KeyOfSpellings ==
    /\ \A i, j \in Constructions :
          SameEndpoint(Constructed(i).service, Constructed(j).service)
              => Constructed(i).key = Constructed(j).key
    /\ \A i, j \in DOMAIN list :
          SameEndpoint(list[i].service, list[j].service) => i = j

\* the Resolver is running and Backends of the two spellings of the IPv6
\* address, with one port, were added
C26_Witness ==
    /\ state = "running" /\ Quiet
    /\ \E i, j \in Constructions :
          /\ Constructed(i).service.address = "::1"
          /\ Constructed(j).service.address = "0:0:0:0:0:0:0:1"
          /\ Constructed(i).service.port = Constructed(j).service.port

-----------------------------------------------------------------------------
(* C27 *)

\* C27: the Resolver never takes itself to failed: no call of start, stop,
\* addBackend, removeBackend or resetBackends, no emitted error and no
\* callback they schedule enters failed; the only step that does is the one
\* of the state-machine runtime acting from outside.
C27_FailedFromOutside ==
    [][state' = "failed" /\ state # "failed" => step'.kind = "fail"]_vars

\* the runtime has put a machine in failed whose consumer had called start
\* and addBackend and emitted an error, none of which did
C27_Witness ==
    /\ state = "failed" /\ step.kind = "fail"
    /\ Len(ops) = 3
    /\ ops[1].op = "start" /\ ops[2].op = "addBackend" /\ ops[3].op \in Errors
    /\ ops[3].at = "running"

-----------------------------------------------------------------------------
(* C28 *)

\* this step ends the drain of the queue of a running machine: the entry
\* into running (resolver.js), the callback of _processQueue (part_000)
C28_Drained ==
    IF version = "resolver.js"
    THEN state # "running" /\ state' = "running"
    ELSE state = "running" /\ state' = "running"
         /\ step'.kind = "task" /\ step'.name = "processQueue"

\* C28: the queue is populated only while the machine is not running: no
\* step taken in running, a call or a callback, makes the queue longer, and
\* the drain for an entry into running leaves it empty; so from the end of
\* the drain until the machine leaves running the queue is empty.
C28_QueuedOnlyWhenNotRunning ==
    /\ [][state = "running" => Len(_queue') <= Len(_queue)]_vars
    /\ [][C28_Drained => _queue' = <<>>]_vars

\* the queue, of one entry, was drained in running and an addBackend called
\* after that was applied, the queue staying empty
C28_Witness ==
    /\ state = "running"
    /\ Len(options.backends) = 1
    /\ \E i \in DOMAIN notified : notified[i] = "running"
    /\ step = [kind |-> "call", name |-> "addBackend"]
    /\ Last(ops).at = "running" /\ ~Last(ops).threw
    /\ count = 2
    /\ _queue = <<>>

-----------------------------------------------------------------------------
(* C29 *)

\* C29: in part_000 every run of the callback that _processQueue schedules
\* ends, and leaves the queue empty, in whatever state the machine is when
\* the callback runs.
\* (It does not: outside running addBackend and removeBackend push the item
\* the loop has shifted back on the queue, so with a queue that is not
\* empty the loop never ends.)
C29_DrainTerminates ==
    /\ [][version = "part_000" /\ step'.kind = "task" /\ step'.name = "processQueue"
             => looping' \/ _queue' = <<>>]_vars
    /\ (version = "part_000" /\ looping) ~> (~looping /\ _queue = <<>>)

\* the callback of _processQueue is at the head of the setImmediate queue
\* of a machine that stop() has taken out of running, with the queue not empty
C29_Witness ==
    /\ version = "part_000"
    /\ state = "stopping"
    /\ Idle
    /\ _queue # <<>>
    /\ immediates # <<>> /\ Head(immediates).kind = "processQueue"

-----------------------------------------------------------------------------
(* C30 *)

\* the consumer has only called start, addBackend and removeBackend (and
\* emitted errors)
C30_NoResetNoStop == \A i \in DOMAIN ops : ops[i].op \notin {"stop", "resetBackends"}

\* the operations issued, in the order of issue: the constructor's backends,
\* then the addBackend and removeBackend calls that returned
C30_Issued ==
    LET calls == SelectSeq(ops, LAMBDA o : o.ret # <<>>)
    IN  [i \in 1..Len(options.backends) |->
            LET d == options.backends[i]
                b == Backend(d.address, IF d.port = undefined THEN options.defaultPort
                                                               ELSE d.port)
            IN  [key |-> b.key, operation |-> "add", backend |-> b]]
        \o [i \in 1..Len(calls) |->
              [key |-> calls[i].ret[1].key,
               operation |-> IF calls[i].op = "addBackend" THEN "add" ELSE "remove",
               backend |-> calls[i].ret[1]]]

\* C30: in part_000 the operations take effect in the order of issue: when
\* a consumer that only starts the Resolver and adds and removes backends
\* finds it running with nothing left to run, the keys held are those that
\* the replay of all operations issued, in order, leaves.
\* (They are not: an operation issued in running before the callback of
\* _processQueue has run is applied at once, ahead of the queued ones.)
C30_InOrder ==
    version = "part_000" /\ C30_NoResetNoStop /\ state = "running" /\ Quiet
        => Keys(list) = Keys(Replay(<<>>, C30_Issued))

\* a removeBackend was issued in running while an operation issued earlier
\* was still in the queue
C30_Witness ==
    /\ version = "part_000" /\ C30_NoResetNoStop
    /\ state = "running"
    /\ step = [kind |-> "call", name |-> "removeBackend"]
    /\ Last(ops).at = "running" /\ ~Last(ops).threw
    /\ _queue # <<>>

-----------------------------------------------------------------------------
(* C31 *)

\* the consumer's k-th call was a stop() that returned without error
C31_Stopped(k) == Len(ops) >= k /\ ops[k].op = "stop" /\ ~ops[k].threw

\* the consumer has not called stop() or start() after its k-th call
C31_LeftAlone(k) == \A j \in DOMAIN ops : j > k => ops[j].op \notin {"stop", "start"}

\* C31: every stop() call that returns without error takes effect: after
\* it the machine reaches stopped without another stop() call, in whatever
\* state (starting, running, stopping or failed) the call was made; so
\* when the event loop has nothing left to run, and the consumer has not
\* started the machine again, the machine is stopped.
\* (The code does not: state_starting registers no listener for
\* stopAsserted, so a stop() called in starting returns without error and
\* is lost; the machine goes on to running and stays there.)
C31_StopTakesEffect ==
    \A k \in DOMAIN ops :
        C31_Stopped(k) /\ C31_LeftAlone(k) /\ Quiet => state = "stopped"

\* stop() was called right after start(), in starting, and returned
C31_Witness ==
    /\ Len(ops) = 2
    /\ ops[1].op = "start" /\ ~ops[1].threw
    /\ ops[2].op = "stop" /\ ops[2].at = "starting" /\ ~ops[2].threw
    /\ step = [kind |-> "call", name |-> "stop"]
    /\ state = "starting"

-----------------------------------------------------------------------------
(* C32 *)

\* whether each event of a history of added and removed events changes the
\* set of keys it finds: added for a key not in it, removed for a key in it
RECURSIVE RealChanges(_, _)
RealChanges(events, keys) ==
    IF events = <<>> THEN TRUE
    ELSE LET e == Head(events)
         IN  IF e.event = "added"
             THEN e.key \notin keys /\ RealChanges(Tail(events), keys \cup {e.key})
             ELSE e.key \in keys /\ RealChanges(Tail(events), keys \ {e.key})

\* C32: added and removed events announce real changes only: each added
\* event emitted is for a key that backends did not hold just before it,
\* and each removed event for a key that it held.
\* (The code does not: removeBackend in running emits removed whether the
\* key was held or not, addBackend emits added also for a key already held,
\* and in resolver.js the callbacks of start() and resetBackends() pass the
\* backends held to addBackend again.)
C32_RealChangesOnly == RealChanges(Membership(emitted), {})

\* a running machine has emitted added and removed events after a
\* resetBackends called while it was running
C32_Witness ==
    /\ state = "running" /\ Quiet
    /\ \E i \in DOMAIN ops : ops[i].op = "resetBackends" /\ ops[i].at = "running"
    /\ \E i, j \in DOMAIN emitted :
          i < j /\ emitted[i].event = "added" /\ emitted[j].event = "removed"
             /\ emitted[i].key = emitted[j].key

-----------------------------------------------------------------------------
(* C33 *)

\* the keys of a list of backends, in its order
KeySeq(backends) == [i \in 1..Len(backends) |-> backends[i].key]

\* this step is an addBackend call, made in running, that returned
C33_AddInRunning ==
    Calling("addBackend") /\ state = "running" /\ ~Last(ops').threw

\* C33: backends holds one entry per key at most, in the order of first
\* insertion: an addBackend call in running for a key already held leaves
\* count() and the order of list() as they were, and one for a key not
\* held, a key removed before included, puts it at the end of list().
C33_OnePerKeyInOrder ==
    /\ [](\A i, j \in DOMAIN list : list[i].key = list[j].key => i = j)
    /\ [][C33_AddInRunning =>
             LET key == Last(ops').ret[1].key
             IN  IF key \in Keys(_backends)
                 THEN count' = count /\ KeySeq(list') = KeySeq(list)
                 ELSE KeySeq(list') = Append(KeySeq(list), key)]_vars

\* addBackend was called in running for the key of the first of the two
\* backends held, and list() is in the order it was
C33_Witness ==
    /\ state = "running"
    /\ step = [kind |-> "call", name |-> "addBackend"]
    /\ Last(ops).at = "running" /\ ~Last(ops).threw
    /\ Len(options.backends) = 2
    /\ \E i \in DOMAIN notified : notified[i] = "running"
    /\ count = 2
    /\ list[1].key = Last(ops).ret[1].key
    /\ [i \in 1..count |-> list[i].service] = C10_Expected

====
